---- MODULE Spec2Model ----
(***************************************************************************)
(* Inventory Metrics Engine of Inventory-Optimizer (src/calculations.py).  *)
(*                                                                         *)
(* Quantities are fixed-point: an integer q stands for the real q / Scale. *)
(* A Python/numpy float is a record [k, v]: k = "fin" with v the           *)
(* fixed-point value, or k = "nan".  Arithmetic is exact rational          *)
(* arithmetic; IEEE rounding error of the last bit is not modelled.        *)
(* Service levels are percentages (95 stands for 0.95).                    *)
(*                                                                         *)
(* A call's outcome is a record                                            *)
(*   kind    "return" or "raise" (an exception reaches the caller)         *)
(*   value   the returned value (0 when kind = "raise")                    *)
(*   exc     the exception that reaches the caller ("" when none)          *)
(*   printed the exception named by the except branch's print ("" if none) *)
(*                                                                         *)
(* Six specifications share the variables:                               *)
(*   Spec            one call of one engine function on drawn arguments    *)
(*   SpecConcurrent  several callers run engine calls, steps interleaved   *)
(*   SpecPage        the "Generate AI Insights" handler of the page        *)
(*   SpecForecast    one call of get_forecast (src/model.py)               *)
(*   SpecScenario    one analysis chained through the five functions       *)
(*   SpecReport      one component of generate_comprehensive_report        *)
(***************************************************************************)
EXTENDS Integers, Sequences, FiniteSets, TLC

VARIABLES fn, args, pc, outcome,    \* one call of an engine function
          conc,                     \* concurrent callers of the engine
          page                      \* the Demand Analysis page (a Streamlit session)

vars == <<fn, args, pc, outcome, conc, page>>

\* ---------------------------------------------------------------- bounds
Scale == 2          \* fixed-point resolution: q stands for q / Scale
MaxLen == 3         \* longest demand / forecast series
MaxDemand == 2      \* largest per-period demand, in 1/Scale units
MaxQty == 6         \* largest stock / inventory / cost, in 1/Scale units
MaxLead == 3        \* largest lead time in days

\* ---------------------------------------------------------------- floats
Fin(v) == [k |-> "fin", v |-> v]
NaN == [k |-> "nan", v |-> 0]

IsFin(x) == x.k = "fin"

Max(a, b) == IF a >= b THEN a ELSE b

RECURSIVE SumSeq(_)
SumSeq(s) == IF s = <<>> THEN 0 ELSE Head(s) + SumSeq(Tail(s))

RECURSIVE SumSq(_)
SumSq(s) == IF s = <<>> THEN 0 ELSE Head(s) * Head(s) + SumSq(Tail(s))

\* np.round: the integer nearest num / den (den > 0), ties to the even one
RoundHalfEven(num, den) ==
    LET q == num \div den
        r == num % den
    IN  IF 2 * r < den THEN q
        ELSE IF 2 * r > den THEN q + 1
        ELSE IF q % 2 = 0 THEN q ELSE q + 1

\* least k >= from with k * k * den >= num  (ceil of sqrt(num / den))
RECURSIVE CeilSqrtFrom(_, _, _)
CeilSqrtFrom(k, num, den) ==
    IF k * k * den >= num THEN k ELSE CeilSqrtFrom(k + 1, num, den)

\* greatest k with k * k * den <= num  (floor of sqrt(num / den))
FloorSqrt(num, den) ==
    LET c == CeilSqrtFrom(0, num, den)
    IN  IF c * c * den = num THEN c ELSE c - 1

\* ---------------------------------------------------------------- outcomes
Return(v) == [kind |-> "return", value |-> v, exc |-> "", printed |-> ""]
Raise(e) == [kind |-> "raise", value |-> 0, exc |-> e, printed |-> ""]

\* mutant: no except branch, the exception reaches the caller
TryWithoutExcept(body, default) == body

\* try: body / except Exception as e: print(...); return default
TryExcept(body, default) ==
    IF body.kind = "raise"
    THEN [kind |-> "return", value |-> default, exc |-> "", printed |-> body.exc]
    ELSE body

\* ---------------------------------------------------------------- safety stock
\* mutant: the two-sided quantile (1.96 at 95%) instead of the one-sided one
norm_ppf_two_sided(service_level) ==
    IF service_level < 0 \/ service_level > 100 THEN [k |-> "nan", v |-> 0]
    ELSE IF service_level = 0 THEN [k |-> "ninf", v |-> 0]
    ELSE IF service_level = 100 THEN [k |-> "pinf", v |-> 0]
    ELSE IF service_level = 10 THEN [k |-> "fin", v |-> -164]
    ELSE IF service_level = 50 THEN [k |-> "fin", v |-> 0]
    ELSE IF service_level = 85 THEN [k |-> "fin", v |-> 144]
    ELSE IF service_level = 95 THEN [k |-> "fin", v |-> 196]
    ELSE [k |-> "fin", v |-> 258]          \* 99

\* stats.norm.ppf(service_level), in hundredths; service_level in percent
norm_ppf(service_level) ==
    IF service_level < 0 \/ service_level > 100 THEN [k |-> "nan", v |-> 0]
    ELSE IF service_level = 0 THEN [k |-> "ninf", v |-> 0]
    ELSE IF service_level = 100 THEN [k |-> "pinf", v |-> 0]
    ELSE IF service_level = 10 THEN [k |-> "fin", v |-> -128]
    ELSE IF service_level = 50 THEN [k |-> "fin", v |-> 0]
    ELSE IF service_level = 85 THEN [k |-> "fin", v |-> 104]
    ELSE IF service_level = 95 THEN [k |-> "fin", v |-> 164]
    ELSE [k |-> "fin", v |-> 233]          \* 99

\* n^2 * Scale^2 * (population variance of demand_data), len(demand_data) > 0
VarNum(demand_data) ==
    Len(demand_data) * SumSq(demand_data) - SumSeq(demand_data) * SumSeq(demand_data)

\* mutant: the sign of the z-score is lost (abs(z_score))
safety_stock_product_abs(demand_data, lead_time, service_level) ==
    LET z == norm_ppf(service_level)
        V == VarNum(demand_data)
        n == Len(demand_data)
        none == [k |-> "nan", sgn |-> 0, num |-> 0, den |-> 1]
    IN  IF z.k = "nan" \/ lead_time < 0 THEN none
        ELSE IF z.k \in {"pinf", "ninf"}
             THEN IF V = 0 \/ lead_time = 0 THEN none
                  ELSE [none EXCEPT !.k = "pinf"]
        ELSE [k |-> "fin",
              sgn |-> IF V = 0 \/ lead_time = 0 \/ z.v = 0 THEN 0 ELSE 1,
              num |-> z.v * z.v * V * lead_time,
              den |-> 10000 * n * n * Scale * Scale]

\* mutant: sample standard deviation (ddof = 1) instead of the population one
safety_stock_product_ddof1(demand_data, lead_time, service_level) ==
    LET z == norm_ppf(service_level)
        V == VarNum(demand_data)
        n == Len(demand_data)
        none == [k |-> "nan", sgn |-> 0, num |-> 0, den |-> 1]
    IN  IF z.k = "nan" \/ lead_time < 0 \/ n < 2 THEN none
        ELSE IF z.k \in {"pinf", "ninf"}
             THEN IF V = 0 \/ lead_time = 0 THEN none
                  ELSE [none EXCEPT !.k = z.k]
        ELSE [k |-> "fin",
              sgn |-> IF V = 0 \/ lead_time = 0 \/ z.v = 0 THEN 0
                      ELSE IF z.v < 0 THEN -1 ELSE 1,
              num |-> z.v * z.v * V * lead_time,
              den |-> 10000 * n * (n - 1) * Scale * Scale]

\* z_score * std_demand * np.sqrt(lead_time) as a float:
\* k = "nan" | "pinf" | "ninf", or k = "fin" and the value is
\* sgn * sqrt(num / den)
safety_stock_product(demand_data, lead_time, service_level) ==
    LET z == norm_ppf(service_level)
        V == VarNum(demand_data)
        n == Len(demand_data)
        none == [k |-> "nan", sgn |-> 0, num |-> 0, den |-> 1]
    IN  IF z.k = "nan" \/ lead_time < 0 THEN none
        ELSE IF z.k \in {"pinf", "ninf"}
             THEN IF V = 0 \/ lead_time = 0 THEN none
                  ELSE [none EXCEPT !.k = z.k]
        ELSE [k |-> "fin",
              sgn |-> IF V = 0 \/ lead_time = 0 \/ z.v = 0 THEN 0
                      ELSE IF z.v < 0 THEN -1 ELSE 1,
              num |-> z.v * z.v * V * lead_time,
              den |-> 10000 * n * n * Scale * Scale]

\* int(np.ceil(x)) of a finite product
CeilProduct(p) ==
    IF p.sgn >= 0 THEN CeilSqrtFrom(0, p.num, p.den)
    ELSE 0 - FloorSqrt(p.num, p.den)

\* mutant: floor of 0 instead of the minimum of 1
safety_stock_floor0(demand_data, lead_time, service_level) ==
    IF Len(demand_data) = 0 THEN Return(0)
    ELSE LET p == safety_stock_product(demand_data, lead_time, service_level)
         IN  IF p.k = "nan" THEN Raise("ValueError")
             ELSE IF p.k \in {"pinf", "ninf"} THEN Raise("OverflowError")
             ELSE Return(Max(0, CeilProduct(p)))

\* mutant: no early return for an empty series (np.std([]) is nan)
safety_stock_no_empty_check(demand_data, lead_time, service_level) ==
    IF Len(demand_data) = 0 THEN Raise("ValueError")
    ELSE LET p == safety_stock_product(demand_data, lead_time, service_level)
         IN  IF p.k = "nan" THEN Raise("ValueError")
             ELSE IF p.k \in {"pinf", "ninf"} THEN Raise("OverflowError")
             ELSE Return(Max(1, CeilProduct(p)))

safety_stock_body(demand_data, lead_time, service_level) ==
    IF Len(demand_data) = 0 THEN Return(0)
    ELSE LET p == safety_stock_product(demand_data, lead_time, service_level)
         IN  IF p.k = "nan" THEN Raise("ValueError")
             ELSE IF p.k \in {"pinf", "ninf"} THEN Raise("OverflowError")
             ELSE Return(Max(1, CeilProduct(p)))

calculate_safety_stock(demand_data, lead_time, service_level) ==
    TryExcept(safety_stock_body(demand_data, lead_time, service_level), 0)

\* ---------------------------------------------------------------- order quantity
\* mutant: int() truncation without np.round
order_quantity_truncating(optimal_inventory, current_stock) ==
    IF ~IsFin(optimal_inventory) \/ ~IsFin(current_stock)
    THEN Raise("ValueError")
    ELSE Return(Max(0, (optimal_inventory.v - current_stock.v) \div Scale))

\* mutant: the max(0, ...) floor is missing
order_quantity_unclamped(optimal_inventory, current_stock) ==
    IF ~IsFin(optimal_inventory) \/ ~IsFin(current_stock)
    THEN Raise("ValueError")
    ELSE Return(RoundHalfEven(optimal_inventory.v - current_stock.v, Scale))

\* mutant: the stock on hand is not subtracted
order_quantity_ignores_stock(optimal_inventory, current_stock) ==
    IF ~IsFin(optimal_inventory) \/ ~IsFin(current_stock)
    THEN Raise("ValueError")
    ELSE Return(Max(0, RoundHalfEven(optimal_inventory.v, Scale)))

order_quantity_body(optimal_inventory, current_stock) ==
    IF ~IsFin(optimal_inventory) \/ ~IsFin(current_stock)
    THEN Raise("ValueError")
    ELSE Return(Max(0, RoundHalfEven(optimal_inventory.v - current_stock.v, Scale)))

calculate_order_quantity(optimal_inventory, current_stock) ==
    TryExcept(order_quantity_body(optimal_inventory, current_stock), 0)

\* ---------------------------------------------------------------- optimal inventory
\* forecast[:lead_time] (Python slice: a negative bound counts from the end)
SliceTo(vals, lead_time) ==
    LET n == IF lead_time >= 0 THEN (IF lead_time < Len(vals) THEN lead_time ELSE Len(vals))
             ELSE Max(0, Len(vals) + lead_time)
    IN  SubSeq(vals, 1, n)

HasLen(forecast) == forecast.kind \in {"ndarray", "list"}

\* mutant: the array branch averages the whole forecast, not forecast[:lead_time]
demand_whole_forecast(forecast, lead_time) ==
    IF HasLen(forecast) /\ Len(forecast.vals) > 0
    THEN [nan |-> FALSE, num |-> SumSeq(forecast.vals) * lead_time,
          den |-> Len(forecast.vals)]
    ELSE IF forecast.kind = "ndarray" /\ Len(forecast.vals) >= lead_time
         THEN [nan |-> TRUE, num |-> 0, den |-> 1]
         ELSE IF forecast.kind = "scalar"
              THEN [nan |-> FALSE, num |-> forecast.vals[1] * lead_time, den |-> 1]
              ELSE [nan |-> FALSE, num |-> 1 * Scale * lead_time, den |-> 1]

\* mutant: the fallback branch forgets to multiply by lead_time
demand_fallback_unscaled(forecast, lead_time) ==
    IF forecast.kind = "ndarray" /\ Len(forecast.vals) >= lead_time
    THEN LET w == SliceTo(forecast.vals, lead_time)
         IN  IF Len(w) = 0 THEN [nan |-> TRUE, num |-> 0, den |-> 1]
             ELSE [nan |-> FALSE, num |-> SumSeq(w) * lead_time, den |-> Len(w)]
    ELSE IF HasLen(forecast) /\ Len(forecast.vals) > 0
         THEN [nan |-> FALSE, num |-> SumSeq(forecast.vals), den |-> Len(forecast.vals)]
         ELSE IF forecast.kind = "scalar"
              THEN [nan |-> FALSE, num |-> forecast.vals[1], den |-> 1]
              ELSE [nan |-> FALSE, num |-> 1 * Scale, den |-> 1]

\* mutant: an empty forecast falls back to an average demand of 0, not 1
demand_fallback_zero(forecast, lead_time) ==
    IF forecast.kind = "ndarray" /\ Len(forecast.vals) >= lead_time
    THEN LET w == SliceTo(forecast.vals, lead_time)
         IN  IF Len(w) = 0 THEN [nan |-> TRUE, num |-> 0, den |-> 1]
             ELSE [nan |-> FALSE, num |-> SumSeq(w) * lead_time, den |-> Len(w)]
    ELSE IF HasLen(forecast) /\ Len(forecast.vals) > 0
         THEN [nan |-> FALSE, num |-> SumSeq(forecast.vals) * lead_time,
               den |-> Len(forecast.vals)]
         ELSE IF forecast.kind = "scalar"
              THEN [nan |-> FALSE, num |-> forecast.vals[1] * lead_time, den |-> 1]
              ELSE [nan |-> FALSE, num |-> 0, den |-> 1]

\* demand_during_lead_time as a rational [nan, num, den] in 1/Scale units
demand_during_lead_time(forecast, lead_time) ==
    IF forecast.kind = "ndarray" /\ Len(forecast.vals) >= lead_time
    THEN LET w == SliceTo(forecast.vals, lead_time)
         IN  IF Len(w) = 0 THEN [nan |-> TRUE, num |-> 0, den |-> 1]
             ELSE [nan |-> FALSE, num |-> SumSeq(w) * lead_time, den |-> Len(w)]
    ELSE IF HasLen(forecast) /\ Len(forecast.vals) > 0
         THEN [nan |-> FALSE, num |-> SumSeq(forecast.vals) * lead_time,
               den |-> Len(forecast.vals)]
         ELSE IF forecast.kind = "scalar"
              THEN [nan |-> FALSE, num |-> forecast.vals[1] * lead_time, den |-> 1]
              ELSE [nan |-> FALSE, num |-> 1 * Scale * lead_time, den |-> 1]

optimal_inventory_body(forecast, lead_time, safety_stock) ==
    LET d == demand_during_lead_time(forecast, lead_time)
    IN  IF d.nan \/ ~IsFin(safety_stock) THEN Raise("ValueError")
        ELSE Return(Max(1, RoundHalfEven(d.num + safety_stock.v * d.den,
                                         d.den * Scale)))

calculate_optimal_inventory(forecast, lead_time, safety_stock) ==
    TryExcept(optimal_inventory_body(forecast, lead_time, safety_stock), 0)

\* ---------------------------------------------------------------- old method
CoverageDays == 60

\* mutant: 30 days of coverage instead of 60
old_method_30_days(demand_data) ==
    IF Len(demand_data) = 0 THEN Return(0)
    ELSE Return(Max(1, RoundHalfEven(SumSeq(demand_data) * 30,
                                     Len(demand_data) * Scale)))

old_method_body(demand_data) ==
    IF Len(demand_data) = 0 THEN Return(0)
    ELSE Return(Max(1, RoundHalfEven(SumSeq(demand_data) * CoverageDays,
                                     Len(demand_data) * Scale)))

estimate_old_method_inventory(demand_data) ==
    TryExcept(old_method_body(demand_data), 0)

\* ---------------------------------------------------------------- cost savings
CarryingRatePct == 15

\* mutant: capital is the value of the whole baseline, not of the reduction
cost_savings_gross_capital(optimal_inventory, old_method_inventory, unit_cost) ==
    IF ~IsFin(optimal_inventory) \/ ~IsFin(old_method_inventory) \/ ~IsFin(unit_cost)
    THEN Raise("ValueError")
    ELSE LET inventory_reduction_units == old_method_inventory.v - optimal_inventory.v
             capital_num == old_method_inventory.v * unit_cost.v
             pct == IF old_method_inventory.v > 0
                    THEN RoundHalfEven(inventory_reduction_units * 1000,
                                       old_method_inventory.v)
                    ELSE 0
         IN  Return(<<RoundHalfEven(capital_num * CarryingRatePct, 100 * Scale * Scale),
                      pct,
                      RoundHalfEven(capital_num, Scale * Scale)>>)

\* mutant: the percentage is divided out without the old_method_inventory > 0 guard
cost_savings_pct_unguarded(optimal_inventory, old_method_inventory, unit_cost) ==
    IF ~IsFin(optimal_inventory) \/ ~IsFin(old_method_inventory) \/ ~IsFin(unit_cost)
    THEN Raise("ValueError")
    ELSE IF old_method_inventory.v = 0 THEN Raise("ZeroDivisionError")
    ELSE LET inventory_reduction_units == old_method_inventory.v - optimal_inventory.v
             capital_num == inventory_reduction_units * unit_cost.v
             sign == IF old_method_inventory.v > 0 THEN 1 ELSE -1
             pct == RoundHalfEven(sign * inventory_reduction_units * 1000,
                                  sign * old_method_inventory.v)
         IN  Return(<<RoundHalfEven(capital_num * CarryingRatePct, 100 * Scale * Scale),
                      pct,
                      RoundHalfEven(capital_num, Scale * Scale)>>)

\* mutant: the three outputs are floored at 0
cost_savings_clamped(optimal_inventory, old_method_inventory, unit_cost) ==
    IF ~IsFin(optimal_inventory) \/ ~IsFin(old_method_inventory) \/ ~IsFin(unit_cost)
    THEN Raise("ValueError")
    ELSE LET inventory_reduction_units == old_method_inventory.v - optimal_inventory.v
             capital_num == inventory_reduction_units * unit_cost.v
             pct == IF old_method_inventory.v > 0
                    THEN RoundHalfEven(inventory_reduction_units * 1000,
                                       old_method_inventory.v)
                    ELSE 0
         IN  Return(<<Max(0, RoundHalfEven(capital_num * CarryingRatePct,
                                           100 * Scale * Scale)),
                      Max(0, pct),
                      Max(0, RoundHalfEven(capital_num, Scale * Scale))>>)

\* mutant: int() truncation of the two amounts without np.round
cost_savings_truncating(optimal_inventory, old_method_inventory, unit_cost) ==
    IF ~IsFin(optimal_inventory) \/ ~IsFin(old_method_inventory) \/ ~IsFin(unit_cost)
    THEN Raise("ValueError")
    ELSE LET inventory_reduction_units == old_method_inventory.v - optimal_inventory.v
             capital_num == inventory_reduction_units * unit_cost.v
             Trunc(num, den) == IF num >= 0 THEN num \div den ELSE 0 - ((0 - num) \div den)
             pct == IF old_method_inventory.v > 0
                    THEN RoundHalfEven(inventory_reduction_units * 1000,
                                       old_method_inventory.v)
                    ELSE 0
         IN  Return(<<Trunc(capital_num * CarryingRatePct, 100 * Scale * Scale),
                      pct,
                      Trunc(capital_num, Scale * Scale)>>)

\* returns <<annual_savings, inventory_reduction_percentage in tenths of a
\* percent, capital_released>>
cost_savings_body(optimal_inventory, old_method_inventory, unit_cost) ==
    IF ~IsFin(optimal_inventory) \/ ~IsFin(old_method_inventory) \/ ~IsFin(unit_cost)
    THEN Raise("ValueError")
    ELSE LET inventory_reduction_units == old_method_inventory.v - optimal_inventory.v
             capital_num == inventory_reduction_units * unit_cost.v
             pct == IF old_method_inventory.v > 0
                    THEN RoundHalfEven(inventory_reduction_units * 1000,
                                       old_method_inventory.v)
                    ELSE 0
         IN  Return(<<RoundHalfEven(capital_num * CarryingRatePct, 100 * Scale * Scale),
                      pct,
                      RoundHalfEven(capital_num, Scale * Scale)>>)

calculate_cost_savings(optimal_inventory, old_method_inventory, unit_cost) ==
    TryExcept(cost_savings_body(optimal_inventory, old_method_inventory, unit_cost),
              <<0, 0, 0>>)

\* ---------------------------------------------------------------- inputs
RECURSIVE SeqsUpTo(_, _)
SeqsUpTo(S, n) ==
    IF n = 0 THEN {<<>>}
    ELSE LET shorter == SeqsUpTo(S, n - 1)
         IN  shorter \cup {Append(s, x) : s \in {t \in shorter : Len(t) = n - 1}, x \in S}

DemandSeries == SeqsUpTo(0..MaxDemand, MaxLen)
LeadTimes == -1..MaxLead
ServiceLevels == {-5, 0, 10, 50, 85, 95, 99, 100}
Quantities == {Fin(v) : v \in 0..MaxQty} \cup {NaN}
UnitCosts == {Fin(v) : v \in -1..MaxQty} \cup {NaN}
BaselineQuantities == {Fin(v) : v \in -1..MaxQty} \cup {NaN}
ForecastValues == -1..MaxDemand
Forecasts ==
    {[kind |-> k, vals |-> v] : k \in {"ndarray", "list"},
                                v \in SeqsUpTo(ForecastValues, MaxLen)}
    \cup {[kind |-> "scalar", vals |-> <<x>>] : x \in ForecastValues}
    \cup {[kind |-> "none", vals |-> <<>>]}

NoArgs ==
    [demand_data |-> <<>>, lead_time |-> 0, service_level |-> 0,
     forecast |-> [kind |-> "none", vals |-> <<>>], safety_stock |-> Fin(0),
     optimal_inventory |-> Fin(0), current_stock |-> Fin(0),
     old_method_inventory |-> Fin(0), unit_cost |-> Fin(0)]

\* ---------------------------------------------------------------- state machine
Pending == [kind |-> "pending", value |-> 0, exc |-> "", printed |-> ""]

SafetyStockArgs ==
    {[NoArgs EXCEPT !.demand_data = d, !.lead_time = lt, !.service_level = sl] :
        d \in DemandSeries, lt \in LeadTimes, sl \in ServiceLevels}

OrderQuantityArgs ==
    {[NoArgs EXCEPT !.optimal_inventory = opt, !.current_stock = cur] :
        opt \in Quantities, cur \in Quantities}

OptimalInventoryArgs ==
    {[NoArgs EXCEPT !.forecast = f, !.lead_time = lt, !.safety_stock = ss] :
        f \in Forecasts, lt \in LeadTimes, ss \in Quantities}

OldMethodArgs == {[NoArgs EXCEPT !.demand_data = d] : d \in DemandSeries}

CostSavingsArgs ==
    {[NoArgs EXCEPT !.optimal_inventory = opt, !.old_method_inventory = old,
                    !.unit_cost = c] :
        opt \in Quantities, old \in BaselineQuantities, c \in UnitCosts}

\* the parts of the state a specification does not use
ConcIdle == [calls |-> <<>>, frames |-> <<>>, overlap |-> FALSE]
PageIdle == [pc |-> "off"]
EngineIdle == fn = "none" /\ args = NoArgs /\ pc = "idle" /\ outcome = Pending

\* a caller has built the arguments of one call; the call has not run yet
Init ==
    /\ pc = "called"
    /\ outcome = Pending
    /\ conc = ConcIdle
    /\ page = PageIdle
    /\ \/ fn = "calculate_safety_stock" /\ args \in SafetyStockArgs
       \/ fn = "calculate_optimal_inventory" /\ args \in OptimalInventoryArgs
       \/ fn = "calculate_order_quantity" /\ args \in OrderQuantityArgs
       \/ fn = "estimate_old_method_inventory" /\ args \in OldMethodArgs
       \/ fn = "calculate_cost_savings" /\ args \in CostSavingsArgs

CallSafetyStock ==
    /\ pc = "called"
    /\ fn = "calculate_safety_stock"
    /\ outcome' = calculate_safety_stock(args.demand_data, args.lead_time,
                                         args.service_level)
    /\ pc' = "returned"
    /\ UNCHANGED <<fn, args, conc, page>>

CallOrderQuantity ==
    /\ pc = "called"
    /\ fn = "calculate_order_quantity"
    /\ outcome' = calculate_order_quantity(args.optimal_inventory, args.current_stock)
    /\ pc' = "returned"
    /\ UNCHANGED <<fn, args, conc, page>>

CallOptimalInventory ==
    /\ pc = "called"
    /\ fn = "calculate_optimal_inventory"
    /\ outcome' = calculate_optimal_inventory(args.forecast, args.lead_time,
                                              args.safety_stock)
    /\ pc' = "returned"
    /\ UNCHANGED <<fn, args, conc, page>>

CallOldMethod ==
    /\ pc = "called"
    /\ fn = "estimate_old_method_inventory"
    /\ outcome' = estimate_old_method_inventory(args.demand_data)
    /\ pc' = "returned"
    /\ UNCHANGED <<fn, args, conc, page>>

CallCostSavings ==
    /\ pc = "called"
    /\ fn = "calculate_cost_savings"
    /\ outcome' = calculate_cost_savings(args.optimal_inventory,
                                         args.old_method_inventory, args.unit_cost)
    /\ pc' = "returned"
    /\ UNCHANGED <<fn, args, conc, page>>

Next ==
    \/ CallSafetyStock
    \/ CallOptimalInventory
    \/ CallOrderQuantity
    \/ CallOldMethod
    \/ CallCostSavings

Spec == Init /\ [][Next]_vars

\* ---------------------------------------------------------------- concurrent callers
NumCallers == 2
Callers == 1..NumCallers

\* the try block of f on arguments a, and what f's except branch returns
Body(f, a) ==
    IF f = "calculate_safety_stock"
    THEN safety_stock_body(a.demand_data, a.lead_time, a.service_level)
    ELSE IF f = "calculate_optimal_inventory"
    THEN optimal_inventory_body(a.forecast, a.lead_time, a.safety_stock)
    ELSE IF f = "calculate_order_quantity"
    THEN order_quantity_body(a.optimal_inventory, a.current_stock)
    ELSE IF f = "estimate_old_method_inventory"
    THEN old_method_body(a.demand_data)
    ELSE cost_savings_body(a.optimal_inventory, a.old_method_inventory, a.unit_cost)

ExceptDefault(f) == IF f = "calculate_cost_savings" THEN <<0, 0, 0>> ELSE 0

\* the calls the concurrent callers choose from
ConcCalls ==
    {[fn |-> "calculate_safety_stock",
      args |-> [NoArgs EXCEPT !.demand_data = <<0, 2>>, !.lead_time = 2,
                              !.service_level = sl]] : sl \in {95, 99, 100}}
    \cup {[fn |-> "calculate_optimal_inventory",
           args |-> [NoArgs EXCEPT !.forecast = [kind |-> "ndarray", vals |-> <<1, 2>>],
                                   !.lead_time = 2, !.safety_stock = ss]] :
            ss \in {Fin(1), NaN}}
    \cup {[fn |-> "calculate_order_quantity",
           args |-> [NoArgs EXCEPT !.optimal_inventory = Fin(5),
                                   !.current_stock = cur]] : cur \in {Fin(0), Fin(2)}}
    \cup {[fn |-> "estimate_old_method_inventory",
           args |-> [NoArgs EXCEPT !.demand_data = d]] : d \in {<<>>, <<1, 2>>}}
    \cup {[fn |-> "calculate_cost_savings",
           args |-> [NoArgs EXCEPT !.optimal_inventory = Fin(2),
                                   !.old_method_inventory = Fin(6),
                                   !.unit_cost = c]] : c \in {Fin(3), Fin(6)}}

\* the frame that holds the local variables of caller c's invocation: every
\* invocation has a frame of its own, the module has no global variable
FrameShared(c) == 1          \* mutant: the results live in one module-level global
FrameOf(c) == c

NoLocals == [kind |-> "none", value |-> 0, exc |-> "", printed |-> ""]

InitConcurrent ==
    /\ EngineIdle
    /\ page = PageIdle
    /\ \E chosen \in [Callers -> ConcCalls] :
          conc = [calls |-> [c \in Callers |->
                                [fn |-> chosen[c].fn, args |-> chosen[c].args,
                                 given |-> chosen[c].args, pc |-> "called",
                                 out |-> Pending]],
                  frames |-> [c \in Callers |-> NoLocals],
                  overlap |-> FALSE]

\* caller c's invocation runs its try block; the result is in its locals
ConcEnter(c) ==
    /\ conc.calls[c].pc = "called"
    /\ conc' = [conc EXCEPT
                  !.calls[c].pc = "running",
                  !.frames[FrameOf(c)] = Body(conc.calls[c].fn, conc.calls[c].args),
                  !.overlap = @ \/ \E d \in Callers : conc.calls[d].pc = "running"]
    /\ UNCHANGED <<fn, args, pc, outcome, page>>

\* caller c's invocation returns from the try block or from the except branch
ConcReturn(c) ==
    /\ conc.calls[c].pc = "running"
    /\ conc' = [conc EXCEPT
                  !.calls[c].pc = "returned",
                  !.calls[c].out = TryExcept(conc.frames[FrameOf(c)],
                                             ExceptDefault(conc.calls[c].fn))]
    /\ UNCHANGED <<fn, args, pc, outcome, page>>

NextConcurrent == \E c \in Callers : ConcEnter(c) \/ ConcReturn(c)

SpecConcurrent == InitConcurrent /\ [][NextConcurrent]_vars

\* ---------------------------------------------------------------- forecast provider
MaxRows == 2                \* rows of a component's history
MaxPeriods == 2             \* forecast horizon asked for

YhatLevels == {-1, 0, 2}    \* raw yhat values of a fitted model

\* a Units_Used cell that is not a number (the column then has dtype object)
Text == [k |-> "str", v |-> 0]

\* a row of component_data: ds tells whether Date is present, y is Units_Used
Row(y) == [ds |-> TRUE, y |-> y]

\* prophet_df.dropna(): the rows with both a date and a value
UsableRows(component_data) ==
    {i \in DOMAIN component_data : component_data[i].ds /\ IsFin(component_data[i].y)}

RECURSIVE SumFinite(_)
SumFinite(rows) ==
    IF rows = <<>> THEN 0
    ELSE (IF IsFin(Head(rows).y) THEN Head(rows).y.v ELSE 0) + SumFinite(Tail(rows))

\* component_data['Units_Used'].mean(): missing values are skipped, the mean
\* of no value is nan; the float is quantized to the fixed-point grid
units_used_mean(component_data) ==
    LET present == {i \in DOMAIN component_data : IsFin(component_data[i].y)}
    IN  IF present = {} THEN NaN
        ELSE Fin(SumFinite(component_data) \div Cardinality(present))

\* np.array([avg_demand] * periods)
average_forecast(component_data, periods) ==
    [kind |-> "ndarray",
     vals |-> [i \in 1..periods |-> units_used_mean(component_data)]]

\* forecast_df.tail(periods)['yhat'].values clamped by np.maximum(., 0); the
\* fit is not modelled: yhat alternates between two arbitrary levels
prophet_forecasts(periods) ==
    {[kind |-> "ndarray",
      vals |-> [i \in 1..periods |-> Fin(Max(IF i % 2 = 1 THEN a ELSE b, 0))]] :
        a \in YhatLevels, b \in YhatLevels}

\* the outcomes of get_forecast on each of its return paths
forecast_too_few_rows(component_data, periods) ==
    Return(average_forecast(component_data, periods))

forecast_fitted(component_data, periods) ==
    {Return(f) : f \in prophet_forecasts(periods)}

forecast_after_exception(component_data, periods) ==
    TryExcept(Raise("Exception"), average_forecast(component_data, periods))

HasText(component_data) == \E i \in DOMAIN component_data : component_data[i].y = Text

\* a text cell makes the mean (or the fit) raise inside the try block, and
\* the mean of the except branch raise again: that one reaches the caller
forecast_propagates(component_data, periods) == Raise("TypeError")

\* every outcome get_forecast can produce (the fit may or may not raise)
get_forecast(component_data, periods) ==
    IF HasText(component_data)
    THEN {forecast_propagates(component_data, periods)}
    ELSE IF Cardinality(UsableRows(component_data)) < 2
    THEN {forecast_too_few_rows(component_data, periods)}
    ELSE forecast_fitted(component_data, periods)
         \cup {forecast_after_exception(component_data, periods)}

HistoryRows ==
    {[ds |-> d, y |-> y] : d \in BOOLEAN, y \in {Fin(v) : v \in 0..MaxDemand} \cup {NaN, Text}}
Histories == SeqsUpTo(HistoryRows, MaxRows)
Periods == 0..MaxPeriods

InitForecast ==
    /\ pc = "called"
    /\ outcome = Pending
    /\ conc = ConcIdle
    /\ page = PageIdle
    /\ fn = "get_forecast"
    /\ \E h \in Histories, n \in Periods : args = [component_data |-> h, periods |-> n]

ForecastTooFewRows ==
    /\ pc = "called"
    /\ ~HasText(args.component_data)
    /\ Cardinality(UsableRows(args.component_data)) < 2
    /\ outcome' = forecast_too_few_rows(args.component_data, args.periods)
    /\ pc' = "returned"
    /\ UNCHANGED <<fn, args, conc, page>>

ForecastFitted ==
    /\ pc = "called"
    /\ ~HasText(args.component_data)
    /\ Cardinality(UsableRows(args.component_data)) >= 2
    /\ outcome' \in forecast_fitted(args.component_data, args.periods)
    /\ pc' = "returned"
    /\ UNCHANGED <<fn, args, conc, page>>

ForecastAfterException ==
    /\ pc = "called"
    /\ ~HasText(args.component_data)
    /\ Cardinality(UsableRows(args.component_data)) >= 2
    /\ outcome' = forecast_after_exception(args.component_data, args.periods)
    /\ pc' = "returned"
    /\ UNCHANGED <<fn, args, conc, page>>

ForecastPropagates ==
    /\ pc = "called"
    /\ HasText(args.component_data)
    /\ outcome' = forecast_propagates(args.component_data, args.periods)
    /\ pc' = "returned"
    /\ UNCHANGED <<fn, args, conc, page>>

NextForecast ==
    \/ ForecastPropagates
    \/ ForecastTooFewRows
    \/ ForecastFitted
    \/ ForecastAfterException

SpecForecast == InitForecast /\ [][NextForecast]_vars

\* ---------------------------------------------------------------- Demand Analysis page
MaxRuns == 2                \* clicks on "Generate AI Insights" in one session
LeadSliderMin == 7
LeadSliderDefault == 30
ForecastExtraDays == 60

Components == {"A", "B"}
PageLeadTimes == {LeadSliderMin, LeadSliderDefault}
PageServiceLevels == {85, 95}

\* the rows of data/historical_data.csv and data/current_stocks.csv of a component
\* (text: a Units_Used cell of the component is not a number)
PageDatasets ==
    {[demand |-> <<0, 2>>, text |-> FALSE, current_stock |-> Fin(0), unit_cost |-> Fin(3)],
     [demand |-> <<1, 1, 4>>, text |-> FALSE, current_stock |-> Fin(5), unit_cost |-> Fin(5)],
     [demand |-> <<0, 2>>, text |-> TRUE, current_stock |-> Fin(5), unit_cost |-> Fin(3)]}

\* the float x quantized to the fixed-point grid (towards minus infinity)
QuantizeProduct(p) ==
    IF p.k # "fin" THEN [k |-> p.k, v |-> 0]
    ELSE IF p.sgn >= 0 THEN Fin(FloorSqrt(p.num * Scale * Scale, p.den))
    ELSE Fin(0 - CeilSqrtFrom(0, p.num * Scale * Scale, p.den))

\* the page's own calculate_safety_stock, which shadows the imported one:
\* the float z * sigma * sqrt(lead_time), no rounding, no floor, no try
page_calculate_safety_stock(demand_data, lead_time, service_level) ==
    IF Len(demand_data) = 0 THEN NaN
    ELSE QuantizeProduct(safety_stock_product(demand_data, lead_time, service_level))

\* comp_data as get_forecast sees it
ComponentRows(comp) ==
    [i \in DOMAIN comp.demand |-> Row(IF comp.text THEN Text ELSE Fin(comp.demand[i]))]

\* the forecast array as the engine's argument
EngineForecast(f) == [kind |-> f.kind, vals |-> [i \in DOMAIN f.vals |-> f.vals[i].v]]

\* the statements of the handler's try block, in program order
HandlerSwapped ==            \* mutant: the baseline is computed before the order quantity
    <<"get_forecast", "calculate_safety_stock", "calculate_optimal_inventory",
      "estimate_old_method_inventory", "calculate_order_quantity",
      "calculate_cost_savings", "store_results">>
HandlerSteps ==
    <<"get_forecast", "calculate_safety_stock", "calculate_optimal_inventory",
      "calculate_order_quantity", "estimate_old_method_inventory",
      "calculate_cost_savings", "store_results">>

LocalNames ==
    {"forecast", "safety_stock", "optimal_inventory", "order_quantity",
     "old_method_inventory", "savings"}

\* the local variables a statement reads
Reads(op) ==
    IF op = "calculate_optimal_inventory" THEN {"forecast", "safety_stock"}
    ELSE IF op = "calculate_order_quantity" THEN {"optimal_inventory"}
    ELSE IF op = "calculate_cost_savings" THEN {"optimal_inventory", "old_method_inventory"}
    ELSE IF op = "store_results"
    THEN {"optimal_inventory", "safety_stock", "order_quantity",
          "old_method_inventory", "savings"}
    ELSE {}

Unbound == [def |-> FALSE, val |-> 0]
Bound(v) == [def |-> TRUE, val |-> v]
NoResults == [def |-> FALSE]

Local(n) == page.locals[n].val
CompData == page.data[page.component]

\* a whole number of units as a fixed-point float
Units(n) == Fin(n * Scale)

InitPage ==
    /\ EngineIdle
    /\ conc = ConcIdle
    /\ \E data \in [Components -> PageDatasets] :
          page = [pc |-> 0, run |-> 0, data |-> data, view |-> "demand_analysis",
                  component |-> "A", lead_time |-> LeadSliderDefault,
                  service_level |-> 95,
                  locals |-> [n \in LocalNames |-> Unbound],
                  trace |-> <<>>, results |-> NoResults, error |-> ""]

AtStep(op) ==
    /\ page.pc \in 1..Len(HandlerSteps)
    /\ HandlerSteps[page.pc] = op

\* the page after statement op: a read of an unbound name raises NameError,
\* which the handler's except branch reports; otherwise name is bound to val
\* mutant: the except branch also drops the stored result
HandlerExceptClearing(e) == [page EXCEPT !.pc = 0, !.error = e, !.results = NoResults]

\* except Exception as e: st.error(...); the handler is left
HandlerExcept(e) == [page EXCEPT !.pc = 0, !.error = e]

AfterStep(op, name, val, ins) ==
    IF \E n \in Reads(op) : ~page.locals[n].def
    THEN HandlerExcept("NameError")
    ELSE [page EXCEPT !.pc = @ + 1,
                      !.locals[name] = Bound(val),
                      !.trace = Append(@, [op |-> op, run |-> page.run,
                                           ins |-> ins, out |-> val])]

\* the user sets the sidebar widgets and clicks the button: the script runs
\* again from the top in a fresh namespace and enters the handler
ClickGenerate ==
    /\ page.pc = 0
    /\ page.view = "demand_analysis"
    /\ page.run < MaxRuns
    /\ \E c \in Components, lt \in PageLeadTimes, sl \in PageServiceLevels :
          page' = [page EXCEPT !.pc = 1, !.run = @ + 1, !.component = c,
                               !.lead_time = lt, !.service_level = sl,
                               !.locals = [n \in LocalNames |-> Unbound],
                               !.trace = <<>>, !.error = ""]
    /\ UNCHANGED <<fn, args, pc, outcome, conc>>

\* the user picks another component in the sidebar: a rerun without the button
SelectComponent ==
    /\ page.pc = 0
    /\ page.view = "demand_analysis"
    /\ \E c \in Components \ {page.component} :
          page' = [page EXCEPT !.component = c, !.error = ""]
    /\ UNCHANGED <<fn, args, pc, outcome, conc>>

\* the user opens the Financial Dashboard: its script runs on the same session
OpenFinancialDashboard ==
    /\ page.pc = 0
    /\ page.view = "demand_analysis"
    /\ page' = [page EXCEPT !.view = "financial_dashboard", !.error = ""]
    /\ UNCHANGED <<fn, args, pc, outcome, conc>>

\* the user goes back to Demand Analysis: its widgets are new ones, at
\* their defaults
OpenDemandAnalysis ==
    /\ page.pc = 0
    /\ page.view = "financial_dashboard"
    /\ page' = [page EXCEPT !.view = "demand_analysis", !.component = "A",
                            !.lead_time = LeadSliderDefault, !.service_level = 95]
    /\ UNCHANGED <<fn, args, pc, outcome, conc>>

\* whether the page on screen shows the stored analysis result
ResultsShown ==
    /\ page.pc = 0
    /\ page.results.def
    /\ page.view = "demand_analysis" => page.results.component = page.component

PageForecast ==
    /\ AtStep("get_forecast")
    /\ \E o \in get_forecast(ComponentRows(CompData),
                              page.lead_time + ForecastExtraDays) :
          page' = IF o.kind = "raise" THEN HandlerExcept(o.exc)
                  ELSE AfterStep("get_forecast", "forecast",
                                 EngineForecast(o.value), <<>>)
    /\ UNCHANGED <<fn, args, pc, outcome, conc>>

PageSafetyStock ==
    /\ AtStep("calculate_safety_stock")
    /\ page' = AfterStep("calculate_safety_stock", "safety_stock",
                         page_calculate_safety_stock(CompData.demand, page.lead_time,
                                                     page.service_level),
                         <<>>)
    /\ UNCHANGED <<fn, args, pc, outcome, conc>>

PageOptimalInventory ==
    /\ AtStep("calculate_optimal_inventory")
    /\ page' = AfterStep("calculate_optimal_inventory", "optimal_inventory",
                         calculate_optimal_inventory(Local("forecast"), page.lead_time,
                                                     Local("safety_stock")).value,
                         <<Local("safety_stock")>>)
    /\ UNCHANGED <<fn, args, pc, outcome, conc>>

PageOrderQuantity ==
    /\ AtStep("calculate_order_quantity")
    /\ page' = AfterStep("calculate_order_quantity", "order_quantity",
                         calculate_order_quantity(Units(Local("optimal_inventory")),
                                                  CompData.current_stock).value,
                         <<Local("optimal_inventory")>>)
    /\ UNCHANGED <<fn, args, pc, outcome, conc>>

PageOldMethod ==
    /\ AtStep("estimate_old_method_inventory")
    /\ page' = AfterStep("estimate_old_method_inventory", "old_method_inventory",
                         estimate_old_method_inventory(CompData.demand).value, <<>>)
    /\ UNCHANGED <<fn, args, pc, outcome, conc>>

PageCostSavings ==
    /\ AtStep("calculate_cost_savings")
    /\ page' = AfterStep("calculate_cost_savings", "savings",
                         calculate_cost_savings(Units(Local("optimal_inventory")),
                                                Units(Local("old_method_inventory")),
                                                CompData.unit_cost).value,
                         <<Local("optimal_inventory"), Local("old_method_inventory")>>)
    /\ UNCHANGED <<fn, args, pc, outcome, conc>>

\* st.session_state.results = {...}; the handler is done
PageStoreResults ==
    /\ AtStep("store_results")
    /\ page' = IF \E n \in Reads("store_results") : ~page.locals[n].def
               THEN HandlerExcept("NameError")
               ELSE [page EXCEPT
                       !.pc = 0,
                       !.trace = Append(@, [op |-> "store_results", run |-> page.run,
                                            ins |-> <<>>, out |-> 0]),
                       !.results =
                          [def |-> TRUE,
                           optimal_inventory |-> Local("optimal_inventory"),
                           safety_stock |-> Local("safety_stock"),
                           order_quantity |-> Local("order_quantity"),
                           old_method_inventory |-> Local("old_method_inventory"),
                           annual_savings |-> Local("savings")[1],
                           inventory_reduction |-> Local("savings")[2],
                           capital_released |-> Local("savings")[3],
                           component |-> page.component,
                           unit_cost |-> CompData.unit_cost]]
    /\ UNCHANGED <<fn, args, pc, outcome, conc>>

NextPage ==
    \/ ClickGenerate
    \/ SelectComponent
    \/ OpenFinancialDashboard
    \/ OpenDemandAnalysis
    \/ PageForecast
    \/ PageSafetyStock
    \/ PageOptimalInventory
    \/ PageOrderQuantity
    \/ PageOldMethod
    \/ PageCostSavings
    \/ PageStoreResults

SpecPage == InitPage /\ [][NextPage]_vars

\* ---------------------------------------------------------------- worked scenario
\* one analysis through the five engine functions, each fed the results of
\* the earlier ones; args holds the inputs in whole units, outcome the results
ScenarioDemand == <<10, 12, 9, 11, 10, 13, 8>>

Scenarios ==
    {[demand |-> ScenarioDemand, lead_time |-> lt, service_level |-> sl,
      forecast_level |-> 10, forecast_len |-> lt + ForecastExtraDays,
      current_stock |-> cur, unit_cost |-> c] :
        lt \in {7, 14}, sl \in {85, 95, 99}, cur \in {0, 50, 77, 100}, c \in {1, 5}}

\* whole units as fixed-point values
ToScale(units) == [i \in DOMAIN units |-> units[i] * Scale]

ScenarioForecast(sc) ==
    [kind |-> "ndarray", vals |-> [i \in 1..sc.forecast_len |-> sc.forecast_level * Scale]]

NoScenarioResults ==
    [safety_stock |-> 0, optimal_inventory |-> 0, order_quantity |-> 0,
     old_method_inventory |-> 0, savings |-> <<0, 0, 0>>]

InitScenario ==
    /\ fn = "scenario"
    /\ args \in Scenarios
    /\ pc = "calculate_safety_stock"
    /\ outcome = NoScenarioResults
    /\ conc = ConcIdle
    /\ page = PageIdle

ScenarioSafetyStock ==
    /\ pc = "calculate_safety_stock"
    /\ outcome' = [outcome EXCEPT !.safety_stock =
                      calculate_safety_stock(ToScale(args.demand), args.lead_time,
                                             args.service_level).value]
    /\ pc' = "calculate_optimal_inventory"
    /\ UNCHANGED <<fn, args, conc, page>>

ScenarioOptimalInventory ==
    /\ pc = "calculate_optimal_inventory"
    /\ outcome' = [outcome EXCEPT !.optimal_inventory =
                      calculate_optimal_inventory(ScenarioForecast(args), args.lead_time,
                                                  Units(outcome.safety_stock)).value]
    /\ pc' = "calculate_order_quantity"
    /\ UNCHANGED <<fn, args, conc, page>>

ScenarioOrderQuantity ==
    /\ pc = "calculate_order_quantity"
    /\ outcome' = [outcome EXCEPT !.order_quantity =
                      calculate_order_quantity(Units(outcome.optimal_inventory),
                                               Units(args.current_stock)).value]
    /\ pc' = "estimate_old_method_inventory"
    /\ UNCHANGED <<fn, args, conc, page>>

ScenarioOldMethod ==
    /\ pc = "estimate_old_method_inventory"
    /\ outcome' = [outcome EXCEPT !.old_method_inventory =
                      estimate_old_method_inventory(ToScale(args.demand)).value]
    /\ pc' = "calculate_cost_savings"
    /\ UNCHANGED <<fn, args, conc, page>>

ScenarioCostSavings ==
    /\ pc = "calculate_cost_savings"
    /\ outcome' = [outcome EXCEPT !.savings =
                      calculate_cost_savings(Units(outcome.optimal_inventory),
                                             Units(outcome.old_method_inventory),
                                             Units(args.unit_cost)).value]
    /\ pc' = "done"
    /\ UNCHANGED <<fn, args, conc, page>>

NextScenario ==
    \/ ScenarioSafetyStock
    \/ ScenarioOptimalInventory
    \/ ScenarioOrderQuantity
    \/ ScenarioOldMethod
    \/ ScenarioCostSavings

SpecScenario == InitScenario /\ [][NextScenario]_vars

\* ---------------------------------------------------------------- comprehensive report
\* One component of generate_comprehensive_report.  Safety stock and optimal
\* inventory are kept as square roots [num, den] of rationals, in 1/Scale
\* units, so that the comparisons and the rounding are exact.
ReportZScore == 165             \* hundredths
ReportLeadTime == 30
ReportCoverageDays == 45

\* n * (n - 1) * Scale^2 * (hist_data['Units_Used'].std() ** 2); std is the
\* sample deviation, nan for a single row
SampleVarNum(hist) == VarNum(hist)

RECURSIVE Gcd(_, _)
Gcd(a, b) == IF b = 0 THEN a ELSE Gcd(b, a % b)

\* z^2 * lead_time as a fraction in lowest terms (z is in hundredths)
ReportFactor ==
    LET num == ReportZScore * ReportZScore * ReportLeadTime
        g == Gcd(num, 10000)
    IN  [num |-> num \div g, den |-> 10000 \div g]

\* safety_stock: z * std * sqrt(lead_time), or 1.5 * mean when std is nan
report_safety_stock(hist) ==
    IF Len(hist) = 1
    THEN [num |-> 9 * SumSeq(hist) * SumSeq(hist), den |-> 4]
    ELSE [num |-> ReportFactor.num * SampleVarNum(hist),
          den |-> ReportFactor.den * Len(hist) * (Len(hist) - 1)]

\* optimal_inventory: max(safety_stock * 2, avg_daily_demand * 45)
report_optimal_inventory(hist) ==
    LET ss == report_safety_stock(hist)
        n == Len(hist)
        cover == ReportCoverageDays * SumSeq(hist)
    IN  IF 4 * ss.num * n * n >= cover * cover * ss.den
        THEN [num |-> 4 * ss.num, den |-> ss.den]
        ELSE [num |-> cover * cover, den |-> n * n]

\* current_stock < factor * sqrt(q), for factor = 1 / halves
BelowRoot(current_stock, q, halves) ==
    current_stock * current_stock * q.den * halves * halves < q.num

\* least k >= from with sqrt(q) - current_stock <= k + 1/2, in whole units
RECURSIVE RoundRootMinus(_, _, _)
RoundRootMinus(k, q, current_stock) ==
    LET bound == 2 * Scale * k + Scale + 2 * current_stock
    IN  IF 4 * q.num < bound * bound * q.den THEN k
        ELSE IF 4 * q.num = bound * bound * q.den
             THEN (IF k % 2 = 0 THEN k ELSE k + 1)
             ELSE RoundRootMinus(k + 1, q, current_stock)

\* least k >= from with sqrt(q) - current_stock <= k, in whole units
RECURSIVE CeilRootMinus(_, _, _)
CeilRootMinus(k, q, current_stock) ==
    LET bound == Scale * k + current_stock
    IN  IF q.num <= bound * bound * q.den THEN k
        ELSE CeilRootMinus(k + 1, q, current_stock)

\* mutant: the reported order is rounded up
report_order_ceiling(hist, current_stock) ==
    CeilRootMinus(0, report_optimal_inventory(hist), current_stock)

\* round(max(0, optimal_inventory - current_stock)), Python's round: ties to even
report_order_quantity(hist, current_stock) ==
    RoundRootMinus(0, report_optimal_inventory(hist), current_stock)

report_status(hist, current_stock) ==
    IF BelowRoot(current_stock, report_safety_stock(hist), 2) THEN "CRITICAL"
    ELSE IF BelowRoot(current_stock, report_safety_stock(hist), 1) THEN "LOW"
    ELSE IF BelowRoot(current_stock, report_optimal_inventory(hist), 1) THEN "ADEQUATE"
    ELSE "EXCESS"

report_priority(status) ==
    IF status = "CRITICAL" THEN "HIGH" ELSE IF status = "LOW" THEN "MEDIUM" ELSE "LOW"

report_action(status) ==
    IF status = "CRITICAL" THEN "IMMEDIATE ORDER REQUIRED"
    ELSE IF status = "LOW" THEN "PLAN ORDER"
    ELSE IF status = "ADEQUATE" THEN "MONITOR"
    ELSE "REDUCE STOCK"

\* the row appended for a component (the fields derived from the status and
\* the order quantity; the other columns are not modelled)
report_row(hist, current_stock) ==
    [Stock_Status |-> report_status(hist, current_stock),
     Priority_Level |-> report_priority(report_status(hist, current_stock)),
     Recommended_Action |-> report_action(report_status(hist, current_stock)),
     Recommended_Order_Quantity |-> report_order_quantity(hist, current_stock)]

\* stock levels up to the largest optimal inventory
ReportStocks == 0..(ReportCoverageDays * MaxDemand)

InitReport ==
    /\ fn = "generate_comprehensive_report"
    /\ \E h \in DemandSeries, c \in ReportStocks : args = [hist_data |-> h, current_stock |-> c]
    /\ pc = "called"
    /\ outcome = Pending
    /\ conc = ConcIdle
    /\ page = PageIdle

\* if len(hist_data) == 0: continue
ReportSkipComponent ==
    /\ pc = "called"
    /\ Len(args.hist_data) = 0
    /\ outcome' = Return("skipped")
    /\ pc' = "returned"
    /\ UNCHANGED <<fn, args, conc, page>>

ReportAppendRow ==
    /\ pc = "called"
    /\ Len(args.hist_data) > 0
    /\ outcome' = Return(report_row(args.hist_data, args.current_stock))
    /\ pc' = "returned"
    /\ UNCHANGED <<fn, args, conc, page>>

NextReport ==
    \/ ReportSkipComponent
    \/ ReportAppendRow

SpecReport == InitReport /\ [][NextReport]_vars

\* ---------------------------------------------------------------- properties
Returned(f) == pc = "returned" /\ fn = f

ValidLeadTime == args.lead_time >= 1
ValidServiceLevel == args.service_level > 0 /\ args.service_level < 100

\* v is the integer nearest num / den (den > 0), a tie going to the even one
IsNearestEven(v, num, den) ==
    LET gap == IF v * den >= num THEN v * den - num ELSE num - v * den
    IN  /\ 2 * gap <= den
        /\ 2 * gap = den => v % 2 = 0

FiniteOrderArgs == IsFin(args.optimal_inventory) /\ IsFin(args.current_stock)
OrderDiff == args.optimal_inventory.v - args.current_stock.v

\* C1 (as stated): order_quantity returns exactly
\* max(0, optimal_inventory - current_stock).
C1_ExactDifference ==
    (Returned("calculate_order_quantity") /\ FiniteOrderArgs)
        => outcome.value * Scale = Max(0, OrderDiff)

\* C1 (amended): order_quantity returns the whole number
\* max(0, round-half-to-even(optimal_inventory - current_stock)); it equals
\* max(0, optimal_inventory - current_stock) when that difference is whole.
C1_RoundedDifference ==
    (Returned("calculate_order_quantity") /\ FiniteOrderArgs)
        => /\ outcome.kind = "return"
           /\ OrderDiff <= 0 => outcome.value = 0
           /\ OrderDiff > 0 => IsNearestEven(outcome.value, OrderDiff, Scale)
           /\ OrderDiff % Scale = 0 => outcome.value * Scale = Max(0, OrderDiff)

C1_Witness ==
    /\ Returned("calculate_order_quantity")
    /\ FiniteOrderArgs
    /\ OrderDiff > Scale
    /\ 2 * (OrderDiff % Scale) = Scale
    /\ outcome.value * Scale # OrderDiff

\* C2: order_quantity is never negative, and is 0 whenever
\* current_stock >= optimal_inventory.
C2_NeverNegative ==
    Returned("calculate_order_quantity")
        => /\ outcome.kind = "return"
           /\ outcome.value >= 0
           /\ (FiniteOrderArgs /\ OrderDiff <= 0) => outcome.value = 0

C2_Witness ==
    /\ Returned("calculate_order_quantity")
    /\ FiniteOrderArgs
    /\ OrderDiff < 0
    /\ outcome.value = 0

ConstantDemand ==
    /\ Len(args.demand_data) > 0
    /\ args.demand_data[1] > 0
    /\ \A i \in 1..Len(args.demand_data) : args.demand_data[i] = args.demand_data[1]

\* C3 (as stated): for a constant demand series d > 0 and valid lead time and
\* service level, safety_stock returns 0.
C3_ConstantDemandZero ==
    (Returned("calculate_safety_stock") /\ ConstantDemand /\ ValidLeadTime
        /\ ValidServiceLevel)
        => outcome.value = 0

\* C3 (amended): for a constant demand series d > 0 and valid lead time and
\* service level, calculate_safety_stock returns 1, its minimum, and no
\* internal failure occurs.
C3_ConstantDemandOne ==
    (Returned("calculate_safety_stock") /\ ConstantDemand /\ ValidLeadTime
        /\ ValidServiceLevel)
        => outcome = Return(1)

C3_Witness ==
    /\ Returned("calculate_safety_stock")
    /\ ConstantDemand
    /\ Len(args.demand_data) > 1
    /\ ValidLeadTime
    /\ args.service_level = 95
    /\ outcome.value = 1

\* C4: safety_stock raises InvalidConfiguration when service_level is 0 or
\* 1.0 (or outside (0,1)); it returns no number for such a service level.
C4_InvalidServiceLevelRaises ==
    (Returned("calculate_safety_stock") /\ ~ValidServiceLevel)
        => outcome.kind = "raise" /\ outcome.exc = "InvalidConfiguration"

\* C5: a call with lead_time_days <= 0 (safety_stock, optimal_inventory) or
\* a negative unit_cost (cost_savings) raises InvalidConfiguration instead
\* of returning a numeric result.
C5_InvalidConfigurationRaises ==
    (\/ Returned("calculate_safety_stock") /\ args.lead_time <= 0
     \/ Returned("calculate_optimal_inventory") /\ args.lead_time <= 0
     \/ Returned("calculate_cost_savings") /\ IsFin(args.unit_cost)
            /\ args.unit_cost.v < 0)
        => outcome.kind = "raise" /\ outcome.exc = "InvalidConfiguration"

\* the arguments a caller can pass to f, and f applied to them
ArgsOf(f) ==
    IF f = "calculate_safety_stock" THEN SafetyStockArgs
    ELSE IF f = "calculate_optimal_inventory" THEN OptimalInventoryArgs
    ELSE IF f = "calculate_order_quantity" THEN OrderQuantityArgs
    ELSE IF f = "estimate_old_method_inventory" THEN OldMethodArgs
    ELSE CostSavingsArgs

Apply(f, a) ==
    IF f = "calculate_safety_stock"
    THEN calculate_safety_stock(a.demand_data, a.lead_time, a.service_level)
    ELSE IF f = "calculate_optimal_inventory"
    THEN calculate_optimal_inventory(a.forecast, a.lead_time, a.safety_stock)
    ELSE IF f = "calculate_order_quantity"
    THEN calculate_order_quantity(a.optimal_inventory, a.current_stock)
    ELSE IF f = "estimate_old_method_inventory"
    THEN estimate_old_method_inventory(a.demand_data)
    ELSE calculate_cost_savings(a.optimal_inventory, a.old_method_inventory,
                                a.unit_cost)

\* C6: every error path is distinguishable by the caller from a legitimately
\* computed zero: what an operation hands back after an internal failure is
\* never what a computation without failure hands back.
C6_ErrorDistinguishable ==
    (pc = "returned" /\ outcome.printed # "")
        => \A a \in ArgsOf(fn) :
              LET o == Apply(fn, a)
              IN  o.printed = "" => <<o.kind, o.value>> # <<outcome.kind, outcome.value>>

\* C7: for an empty demand series, baseline_inventory and safety_stock
\* return 0 for any lead time and service level, and nothing is raised.
C7_EmptySeriesZero ==
    (pc = "returned" /\ args.demand_data = <<>>
        /\ fn \in {"calculate_safety_stock", "estimate_old_method_inventory"})
        => outcome = Return(0)

C7_Witness ==
    /\ Returned("calculate_safety_stock")
    /\ args.demand_data = <<>>
    /\ args.service_level = 100
    /\ args.lead_time < 0
    /\ outcome.value = 0

FiniteSafetyStock == IsFin(args.safety_stock)
ForecastLen == Len(args.forecast.vals)
LeadWindowSum == SumSeq(SubSeq(args.forecast.vals, 1, args.lead_time))

CoversLeadTime ==
    /\ HasLen(args.forecast)
    /\ ValidLeadTime
    /\ ForecastLen >= args.lead_time
    /\ FiniteSafetyStock

\* C8 (as stated): for a forecast sequence of any container type with length
\* >= lead_time_days, optimal_inventory returns
\* max(0, mean(forecast[0:lead_time_days]) * lead_time_days + safety_stock).
C8_LeadWindowExact ==
    (Returned("calculate_optimal_inventory") /\ CoversLeadTime)
        => outcome.value * Scale = Max(0, LeadWindowSum + args.safety_stock.v)

\* C8 (amended): for a numpy-array forecast with length >= lead_time_days,
\* calculate_optimal_inventory returns the whole number
\* max(1, round-half-to-even(mean(forecast[0:lead_time_days]) * lead_time_days
\* + safety_stock)), so only the first lead_time_days values count; for any
\* other sequence type (a list) the mean is taken over the whole forecast.
C8_LeadWindowRounded ==
    (Returned("calculate_optimal_inventory") /\ CoversLeadTime)
        => LET total == IF args.forecast.kind = "ndarray"
                        THEN LeadWindowSum * ForecastLen
                        ELSE SumSeq(args.forecast.vals) * args.lead_time
               num == total + args.safety_stock.v * ForecastLen
               den == ForecastLen * Scale
           IN  /\ outcome.kind = "return"
               /\ outcome.printed = ""
               /\ outcome.value >= 1
               /\ 2 * num > den => IsNearestEven(outcome.value, num, den)
               /\ 2 * num <= den => outcome.value = 1

C8_Witness ==
    /\ Returned("calculate_optimal_inventory")
    /\ CoversLeadTime
    /\ args.forecast.kind = "ndarray"
    /\ ForecastLen > args.lead_time
    /\ SumSeq(args.forecast.vals) * args.lead_time # LeadWindowSum * ForecastLen
    /\ outcome.value > 1

ShortOrScalar ==
    /\ ValidLeadTime
    /\ FiniteSafetyStock
    /\ \/ args.forecast.kind = "scalar"
       \/ HasLen(args.forecast) /\ ForecastLen > 0 /\ ForecastLen < args.lead_time

\* C9 (as stated): for a scalar forecast or a non-empty sequence shorter than
\* lead_time_days, optimal_inventory returns
\* max(0, mean(available values) * lead_time_days + safety_stock).
C9_FallbackExact ==
    (Returned("calculate_optimal_inventory") /\ ShortOrScalar)
        => outcome.value * Scale * ForecastLen
             = Max(0, SumSeq(args.forecast.vals) * args.lead_time
                        + args.safety_stock.v * ForecastLen)

\* C9 (amended): for a scalar forecast or a non-empty sequence shorter than
\* lead_time_days, calculate_optimal_inventory returns the whole number
\* max(1, round-half-to-even(mean(available values) * lead_time_days
\* + safety_stock)).
C9_FallbackRounded ==
    (Returned("calculate_optimal_inventory") /\ ShortOrScalar)
        => LET num == SumSeq(args.forecast.vals) * args.lead_time
                        + args.safety_stock.v * ForecastLen
               den == ForecastLen * Scale
           IN  /\ outcome.kind = "return"
               /\ outcome.printed = ""
               /\ outcome.value >= 1
               /\ 2 * num > den => IsNearestEven(outcome.value, num, den)
               /\ 2 * num <= den => outcome.value = 1

C9_Witness ==
    /\ Returned("calculate_optimal_inventory")
    /\ ShortOrScalar
    /\ args.forecast.kind = "list"
    /\ args.lead_time > 1
    /\ outcome.value > 1

EmptyForecast == HasLen(args.forecast) /\ ForecastLen = 0

\* C10 (as stated): optimal_inventory called with an empty forecast sequence
\* yields an InsufficientData error, not a numeric inventory target.
C10_EmptyForecastError ==
    (Returned("calculate_optimal_inventory") /\ EmptyForecast)
        => outcome.kind = "raise" /\ outcome.exc = "InsufficientData"

\* C10 (amended): calculate_optimal_inventory called with an empty forecast
\* sequence, a lead time >= 1 and a finite safety stock returns a numeric
\* target computed with an assumed demand of 1 unit per day,
\* max(1, round-half-to-even(lead_time + safety_stock)); no error is raised.
C10_EmptyForecastFallback ==
    (Returned("calculate_optimal_inventory") /\ EmptyForecast /\ ValidLeadTime
        /\ FiniteSafetyStock)
        => /\ outcome.kind = "return"
           /\ outcome.printed = ""
           /\ outcome.value >= 1
           /\ IsNearestEven(outcome.value,
                            args.lead_time * Scale + args.safety_stock.v, Scale)

C10_Witness ==
    /\ Returned("calculate_optimal_inventory")
    /\ EmptyForecast
    /\ args.forecast.kind = "ndarray"
    /\ args.lead_time = 2
    /\ args.safety_stock = Fin(Scale)
    /\ outcome.value = 3

FiniteCostArgs ==
    /\ IsFin(args.optimal_inventory)
    /\ IsFin(args.old_method_inventory)
    /\ IsFin(args.unit_cost)
ReductionUnits == args.old_method_inventory.v - args.optimal_inventory.v
CapitalExact == ReductionUnits * args.unit_cost.v      \* in 1 / Scale^2 units
AnnualSavings == outcome.value[1]
ReductionPct == outcome.value[2]                       \* tenths of a percent
CapitalReleased == outcome.value[3]

\* C11: cost_savings with optimal_inventory == baseline_inventory returns
\* reduction_pct 0, capital_released 0 and annual_savings 0, for every
\* unit_cost.
C11_EqualInventoriesZero ==
    (Returned("calculate_cost_savings") /\ IsFin(args.optimal_inventory)
        /\ args.old_method_inventory = args.optimal_inventory)
        => /\ outcome.kind = "return"
           /\ AnnualSavings = 0
           /\ ReductionPct = 0
           /\ CapitalReleased = 0

C11_Witness ==
    /\ Returned("calculate_cost_savings")
    /\ FiniteCostArgs
    /\ args.old_method_inventory = args.optimal_inventory
    /\ args.optimal_inventory.v > 0
    /\ args.unit_cost.v > 0
    /\ outcome = Return(<<0, 0, 0>>)

\* C12 (as stated): cost_savings returns reduction_pct =
\* (baseline - optimal) / baseline * 100 when baseline > 0 and 0 when
\* baseline <= 0; a zero baseline causes no error.
C12_PercentageExact ==
    (Returned("calculate_cost_savings") /\ FiniteCostArgs)
        => /\ outcome.kind = "return"
           /\ outcome.printed = ""
           /\ args.old_method_inventory.v > 0
                => ReductionPct * args.old_method_inventory.v = ReductionUnits * 1000
           /\ args.old_method_inventory.v <= 0 => ReductionPct = 0

\* C12 (amended): cost_savings returns reduction_pct =
\* (baseline - optimal) / baseline * 100 rounded to one decimal place when
\* baseline > 0, and 0 when baseline <= 0; a zero baseline causes neither a
\* division by zero nor an error result.
C12_PercentageRounded ==
    (Returned("calculate_cost_savings") /\ FiniteCostArgs)
        => /\ outcome.kind = "return"
           /\ outcome.printed = ""
           /\ args.old_method_inventory.v > 0
                => IsNearestEven(ReductionPct, ReductionUnits * 1000,
                                 args.old_method_inventory.v)
           /\ args.old_method_inventory.v <= 0 => ReductionPct = 0

C12_Witness ==
    /\ Returned("calculate_cost_savings")
    /\ FiniteCostArgs
    /\ args.old_method_inventory.v = 0
    /\ args.optimal_inventory.v > 0
    /\ args.unit_cost.v > 0
    /\ ReductionPct = 0
    /\ CapitalReleased < 0

Worsening ==
    /\ FiniteCostArgs
    /\ args.optimal_inventory.v > args.old_method_inventory.v
    /\ args.unit_cost.v > 0

\* C13 (as stated): when optimal_inventory > baseline_inventory and
\* unit_cost > 0, capital_released, annual_savings and reduction_pct are all
\* negative.
C13_WorseningNegative ==
    (Returned("calculate_cost_savings") /\ Worsening)
        => AnnualSavings < 0 /\ ReductionPct < 0 /\ CapitalReleased < 0

\* C13 (amended): when optimal_inventory > baseline_inventory and
\* unit_cost > 0, cost_savings returns the unclamped values rounded:
\* capital_released and annual_savings are the negative amounts rounded to
\* whole numbers (so an amount of at most half a unit in size shows as 0),
\* and reduction_pct is the negative percentage rounded to one decimal when
\* baseline_inventory > 0 and 0 when baseline_inventory <= 0; none of them
\* is floored at 0.
C13_WorseningUnclamped ==
    (Returned("calculate_cost_savings") /\ Worsening)
        => /\ outcome.printed = ""
           /\ IsNearestEven(CapitalReleased, CapitalExact, Scale * Scale)
           /\ IsNearestEven(AnnualSavings, CapitalExact * 15, 100 * Scale * Scale)
           /\ 0 - 2 * CapitalExact > Scale * Scale => CapitalReleased < 0
           /\ 0 - 2 * CapitalExact * 15 > 100 * Scale * Scale => AnnualSavings < 0
           /\ args.old_method_inventory.v > 0
                => /\ IsNearestEven(ReductionPct, ReductionUnits * 1000,
                                    args.old_method_inventory.v)
                   /\ 0 - 2 * ReductionUnits * 1000 > args.old_method_inventory.v
                        => ReductionPct < 0
           /\ args.old_method_inventory.v <= 0 => ReductionPct = 0

C13_Witness ==
    /\ Returned("calculate_cost_savings")
    /\ Worsening
    /\ args.old_method_inventory.v > 0
    /\ CapitalReleased < 0
    /\ AnnualSavings < 0
    /\ ReductionPct < 0

\* C14 (as stated): the returned values satisfy capital_released =
\* (baseline - optimal) * unit_cost and annual_savings = capital_released *
\* 0.15, capital_released being the value returned to the caller.
C14_CapitalAndSavingsExact ==
    (Returned("calculate_cost_savings") /\ FiniteCostArgs)
        => /\ CapitalReleased * Scale * Scale = CapitalExact
           /\ AnnualSavings * 100 = CapitalReleased * 15

\* C14 (amended): the returned values are capital_released =
\* round-half-to-even((baseline - optimal) * unit_cost) and annual_savings =
\* round-half-to-even((baseline - optimal) * unit_cost * 0.15): whole
\* numbers, annual_savings being taken from the unrounded capital amount,
\* not from the capital_released returned to the caller.
C14_CapitalAndSavingsRounded ==
    (Returned("calculate_cost_savings") /\ FiniteCostArgs)
        => /\ outcome.printed = ""
           /\ IsNearestEven(CapitalReleased, CapitalExact, Scale * Scale)
           /\ IsNearestEven(AnnualSavings, CapitalExact * 15, 100 * Scale * Scale)

C14_Witness ==
    /\ Returned("calculate_cost_savings")
    /\ FiniteCostArgs
    /\ CapitalExact % (Scale * Scale) # 0
    /\ AnnualSavings > 0
    /\ AnnualSavings * 100 # CapitalReleased * 15

NonzeroVariance ==
    /\ Len(args.demand_data) > 0
    /\ \E i \in 1..Len(args.demand_data) : args.demand_data[i] # args.demand_data[1]

HigherServiceLevels ==
    {s \in ServiceLevels : s > args.service_level /\ s < 100}

\* the same call with service level s
SafetyStockAt(s) ==
    calculate_safety_stock(args.demand_data, args.lead_time, s).value

\* C15: for valid service levels s1 < s2 and the same nonzero-variance
\* demand series and lead time,
\* safety_stock(demand, lt, s1) <= safety_stock(demand, lt, s2).
C15_MonotoneInServiceLevel ==
    (Returned("calculate_safety_stock") /\ NonzeroVariance /\ ValidServiceLevel)
        => \A s \in HigherServiceLevels : outcome.value <= SafetyStockAt(s)

C15_Witness ==
    /\ Returned("calculate_safety_stock")
    /\ NonzeroVariance
    /\ ValidLeadTime
    /\ args.service_level = 85
    /\ outcome.value < SafetyStockAt(99)

\* (z * sigma * sqrt(lead_time))^2 = SquareNum / SquareDen, with sigma the
\* population standard deviation and z in hundredths
ZScore == norm_ppf(args.service_level).v
SquareNum ==
    ZScore * ZScore * args.lead_time
        * (Len(args.demand_data) * SumSq(args.demand_data)
            - SumSeq(args.demand_data) * SumSeq(args.demand_data))
SquareDen == 10000 * Len(args.demand_data) * Len(args.demand_data) * Scale * Scale

ValidSafetyStockCall ==
    /\ Returned("calculate_safety_stock")
    /\ Len(args.demand_data) > 0
    /\ ValidLeadTime
    /\ ValidServiceLevel

\* C16 (as stated): for a non-empty demand series and valid configuration,
\* safety_stock returns max(0, z * sigma * sqrt(lead_time_days)); a service
\* level below 0.5 yields 0.
C16_SafetyStockExact ==
    ValidSafetyStockCall
        => IF ZScore > 0
           THEN outcome.value * outcome.value * SquareDen = SquareNum
           ELSE outcome.value = 0

\* C16 (amended): for a non-empty demand series and valid configuration,
\* calculate_safety_stock returns the whole number
\* max(1, ceil(z * sigma * sqrt(lead_time_days))) with sigma the population
\* standard deviation and z the inverse normal CDF of service_level; a
\* service level of 0.5 or below (z <= 0) yields 1.
C16_SafetyStockCeiling ==
    ValidSafetyStockCall
        => /\ outcome.kind = "return"
           /\ outcome.printed = ""
           /\ outcome.value >= 1
           /\ (ZScore > 0 /\ SquareNum > 0)
                => /\ outcome.value * outcome.value * SquareDen >= SquareNum
                   /\ (outcome.value - 1) * (outcome.value - 1) * SquareDen < SquareNum
           /\ (ZScore <= 0 \/ SquareNum = 0) => outcome.value = 1

C16_Witness ==
    /\ ValidSafetyStockCall
    /\ NonzeroVariance
    /\ Len(args.demand_data) > 2
    /\ ZScore > 0
    /\ outcome.value >= 2

\* C17: calculate_safety_stock returns an integer that is at least 1 for
\* every non-empty demand series, whatever the lead_time and service_level.
C17_AtLeastOne ==
    (Returned("calculate_safety_stock") /\ Len(args.demand_data) > 0)
        => outcome.value >= 1

\* C18 (as stated): for every non-empty demand series, baseline_inventory
\* returns mean(demand) * 60; an all-zero series yields 0.
C18_BaselineExact ==
    (Returned("estimate_old_method_inventory") /\ Len(args.demand_data) > 0)
        => outcome.value * Len(args.demand_data) * Scale
             = SumSeq(args.demand_data) * 60

\* C18 (amended): for every non-empty demand series,
\* estimate_old_method_inventory returns the whole number
\* max(1, round-half-to-even(mean(demand) * 60)) with the fixed coverage of
\* 60 days; an all-zero demand series therefore yields 1.
C18_BaselineRounded ==
    (Returned("estimate_old_method_inventory") /\ Len(args.demand_data) > 0)
        => LET num == SumSeq(args.demand_data) * 60
               den == Len(args.demand_data) * Scale
           IN  /\ outcome.kind = "return"
               /\ outcome.printed = ""
               /\ outcome.value >= 1
               /\ 2 * num > den => IsNearestEven(outcome.value, num, den)
               /\ 2 * num <= den => outcome.value = 1

C18_Witness ==
    /\ Returned("estimate_old_method_inventory")
    /\ Len(args.demand_data) > 1
    /\ SumSeq(args.demand_data) = 0
    /\ outcome.value = 1

DependencyOrder ==
    <<"get_forecast", "calculate_safety_stock", "calculate_optimal_inventory",
      "calculate_order_quantity", "estimate_old_method_inventory",
      "calculate_cost_savings", "store_results">>

TraceLen == Len(page.trace)

\* C20: in one analysis run the five operations are consumed in dependency
\* order: safety_stock, then optimal_inventory using that run's
\* safety_stock, then order_quantity using that run's optimal_inventory,
\* then baseline_inventory, then cost_savings using that run's
\* optimal_inventory and baseline_inventory; nothing comes from an earlier
\* run.
C20_DependencyOrder ==
    page # PageIdle
        => /\ TraceLen <= Len(DependencyOrder)
           /\ \A i \in 1..TraceLen :
                 /\ page.trace[i].op = DependencyOrder[i]
                 /\ page.trace[i].run = page.run
           /\ TraceLen >= 3 => page.trace[3].ins = <<page.trace[2].out>>
           /\ TraceLen >= 4 => page.trace[4].ins = <<page.trace[3].out>>
           /\ TraceLen >= 6
                => page.trace[6].ins = <<page.trace[3].out, page.trace[5].out>>

\* a second run, about to store, whose safety stock and optimal inventory
\* differ from the ones the first run stored
C20_Witness ==
    /\ page # PageIdle
    /\ page.run = 2
    /\ TraceLen = 6
    /\ page.results.def
    /\ page.results.safety_stock # Local("safety_stock")
    /\ page.results.optimal_inventory # Local("optimal_inventory")
    /\ page.results.old_method_inventory # Local("old_method_inventory")

ForecastReturned == fn = "get_forecast" /\ pc = "returned"

\* C21: get_forecast returns, on every return path (fit, fewer than 2
\* usable rows, exception fallback), a sequence of exactly `periods`
\* values, all non-negative, so that a forecast asked for
\* lead_time + 60 periods covers the lead-time horizon.
C21_ForecastContract ==
    ForecastReturned
        => /\ outcome.kind = "return"
           /\ Len(outcome.value.vals) = args.periods
           /\ \A i \in DOMAIN outcome.value.vals :
                 /\ IsFin(outcome.value.vals[i])
                 /\ outcome.value.vals[i].v >= 0

\* the scenario of the specification's worked example
ClaimedScenario ==
    [demand |-> ScenarioDemand, lead_time |-> 7, service_level |-> 95,
     forecast_level |-> 10, forecast_len |-> 67, current_stock |-> 50, unit_cost |-> 5]

ScenarioDone == fn = "scenario" /\ pc = "done" /\ args = ClaimedScenario

\* the whole number v is h / 100, resp. t / 10, to the precision written
ApproxHundredths(v, h) == 200 * v >= 2 * h - 1 /\ 200 * v <= 2 * h + 1
ApproxTenths(v, t) == 20 * v >= 2 * t - 1 /\ 20 * v <= 2 * t + 1

\* C22 (as claimed): the scenario gives safety_stock 6.98, optimal_inventory
\* 76.98, order_quantity 26.98, baseline 625.7, capital_released 2743.6,
\* annual_savings 411.5 and reduction_pct 87.7.
C22_ScenarioFractional ==
    ScenarioDone
        => /\ ApproxHundredths(outcome.safety_stock, 698)
           /\ ApproxHundredths(outcome.optimal_inventory, 7698)
           /\ ApproxHundredths(outcome.order_quantity, 2698)
           /\ ApproxTenths(outcome.old_method_inventory, 6257)
           /\ ApproxTenths(outcome.savings[3], 27436)
           /\ ApproxTenths(outcome.savings[1], 4115)
           /\ outcome.savings[2] = 877

\* C22 (amended): every result is a whole number: safety_stock 7,
\* optimal_inventory 77, order_quantity 27, baseline 626, and the cost
\* savings of 77 against 626 at unit cost 5 are capital_released 2745,
\* annual_savings 412, reduction_pct 87.7.
C22_ScenarioWhole ==
    ScenarioDone
        => /\ outcome.safety_stock = 7
           /\ outcome.optimal_inventory = 77
           /\ outcome.order_quantity = 27
           /\ outcome.old_method_inventory = 626
           /\ outcome.savings = <<412, 877, 2745>>

C22_Witness ==
    /\ ScenarioDone
    /\ outcome.order_quantity > 0
    /\ outcome.savings[1] > 0

\* what the page's own calculate_safety_stock returns on the call's arguments
PageSafetyStockOfCall ==
    page_calculate_safety_stock(args.demand_data, args.lead_time, args.service_level)

\* C23: the calculate_safety_stock of src/calculations.py and the one
\* defined in src/pages/demand_analysis.py return the same value for every
\* demand series, lead time and service level.
C23_SameSafetyStock ==
    Returned("calculate_safety_stock")
        => /\ IsFin(PageSafetyStockOfCall)
           /\ PageSafetyStockOfCall.v = outcome.value * Scale

\* C24: each of the five functions is total: it returns a value for every
\* input and never propagates an exception; when an internal step raises,
\* calculate_cost_savings returns (0, 0, 0) and the other four return 0.
C24_TotalWithDefaults ==
    pc = "returned"
        => /\ outcome.kind = "return"
           /\ outcome.exc = ""
           /\ outcome.printed # ""
                => outcome.value = (IF fn = "calculate_cost_savings"
                                    THEN <<0, 0, 0>> ELSE 0)

\* an internal step of calculate_cost_savings raised and (0, 0, 0) came back
C24_Witness ==
    /\ Returned("calculate_cost_savings")
    /\ outcome.printed = "ValueError"
    /\ outcome.value = <<0, 0, 0>>

\* stock after the recommended order has arrived, minus the target
StockAfterOrder == args.current_stock.v + outcome.value * Scale
Shortfall == args.optimal_inventory.v - StockAfterOrder

\* C25 (as claimed): for every optimal_inventory and non-negative
\* current_stock, whole or fractional, current_stock + order_quantity >=
\* optimal_inventory, with equality whenever current_stock <=
\* optimal_inventory.
C25_OrderRestoresTarget ==
    (Returned("calculate_order_quantity") /\ FiniteOrderArgs)
        => /\ Shortfall <= 0
           /\ OrderDiff >= 0 => Shortfall = 0

\* C25 (amended): the order restores the target up to the rounding of the
\* order: the stock after the order is never more than half a unit short
\* of optimal_inventory, is within half a unit of it whenever
\* current_stock <= optimal_inventory, and the claim holds as stated when
\* optimal_inventory - current_stock is a whole number.
C25_OrderRestoresWithinHalf ==
    (Returned("calculate_order_quantity") /\ FiniteOrderArgs)
        => /\ 2 * Shortfall <= Scale
           /\ OrderDiff >= 0 => 2 * Shortfall >= 0 - Scale
           /\ OrderDiff % Scale = 0
                => /\ Shortfall <= 0
                   /\ OrderDiff >= 0 => Shortfall = 0

\* a fractional stock below the target leaves the stock short after the order
C25_Witness ==
    /\ Returned("calculate_order_quantity")
    /\ FiniteOrderArgs
    /\ OrderDiff > Scale
    /\ outcome.value > 0
    /\ Shortfall > 0

NonNegativeForecast == \A i \in DOMAIN args.forecast.vals : args.forecast.vals[i] >= 0

\* C26: for every forecast whose values are all non-negative and every
\* safety_stock >= 0, calculate_optimal_inventory returns a value >=
\* safety_stock, so that a stock below safety_stock is also below
\* optimal_inventory.
C26_OptimalAtLeastSafetyStock ==
    (/\ Returned("calculate_optimal_inventory")
     /\ ValidLeadTime
     /\ NonNegativeForecast
     /\ IsFin(args.safety_stock)
     /\ args.safety_stock.v >= 0)
        => outcome.value * Scale >= args.safety_stock.v

\* the nine fields a completed run stores
ResultsOfRun ==
    [def |-> TRUE,
     optimal_inventory |-> page.trace[3].out,
     safety_stock |-> page.trace[2].out,
     order_quantity |-> page.trace[4].out,
     old_method_inventory |-> page.trace[5].out,
     annual_savings |-> page.trace[6].out[1],
     inventory_reduction |-> page.trace[6].out[2],
     capital_released |-> page.trace[6].out[3],
     component |-> page.component,
     unit_cost |-> page.data[page.component].unit_cost]

RunComplete ==
    /\ TraceLen = 6
    /\ \A i \in 1..6 : page.trace[i].op = DependencyOrder[i] /\ page.trace[i].run = page.run

\* C27: session_state.results is replaced only after the forecast and all
\* five calculations of a run have completed, and then all nine fields come
\* from that run and the selected component; a step that raises leaves
\* session_state.results unchanged.
C27_AtomicStore ==
    [][/\ page'.results # page.results
          => /\ RunComplete
             /\ page'.error = ""
             /\ page'.results = ResultsOfRun
       /\ page'.error # "" => page'.results = page.results]_vars

\* a second run on another component raised and the first run's result is kept
C27_Witness ==
    /\ page # PageIdle
    /\ page.run = 2
    /\ page.pc = 0
    /\ page.error = "TypeError"
    /\ page.results.def
    /\ page.results.component # page.component

\* whether the result on screen belongs to the component the user works on
ShownForSelected == ResultsShown => page.results.component = page.component

\* C28: after any sequence of selections and runs, every page that shows
\* the stored result shows it only for the component it was computed for:
\* Demand Analysis only when results.component is the selected component,
\* and no other page without that guard.
C28_ShownOnlyForItsComponent ==
    page # PageIdle => ShownForSelected

ReportedRow ==
    /\ Returned("generate_comprehensive_report")
    /\ Len(args.hist_data) > 0

Statuses == {"CRITICAL", "LOW", "ADEQUATE", "EXCESS"}
ReportSafety == report_safety_stock(args.hist_data)
ReportOptimal == report_optimal_inventory(args.hist_data)
BelowHalfSafety == BelowRoot(args.current_stock, ReportSafety, 2)
BelowSafety == BelowRoot(args.current_stock, ReportSafety, 1)
BelowOptimal == BelowRoot(args.current_stock, ReportOptimal, 1)

\* the status is the one the thresholds select
StatusByThresholds ==
    /\ outcome.value.Stock_Status \in Statuses
    /\ outcome.value.Stock_Status = "CRITICAL" <=> BelowHalfSafety
    /\ outcome.value.Stock_Status = "LOW" <=> (~BelowHalfSafety /\ BelowSafety)
    /\ outcome.value.Stock_Status = "ADEQUATE" <=> (~BelowSafety /\ BelowOptimal)
    /\ outcome.value.Stock_Status = "EXCESS" <=> ~BelowOptimal

\* optimal_inventory - current_stock > 1/2 unit
GapAboveHalf ==
    (2 * args.current_stock + Scale) * (2 * args.current_stock + Scale) * ReportOptimal.den
        < 4 * ReportOptimal.num

\* C29 (as claimed): every reported component gets exactly one of the four
\* statuses by the thresholds 0.5 * safety_stock < safety_stock <=
\* optimal_inventory, and Recommended_Order_Quantity is 0 exactly when the
\* status is EXCESS and positive for the other three.
C29_OrderZeroIffExcess ==
    ReportedRow
        => /\ StatusByThresholds
           /\ ReportSafety.num > 0
           /\ ReportSafety.num * ReportOptimal.den <= ReportOptimal.num * ReportSafety.den
           /\ outcome.value.Recommended_Order_Quantity = 0
                <=> outcome.value.Stock_Status = "EXCESS"

\* C29 (amended): the status is chosen by the thresholds 0.5 * safety_stock
\* <= safety_stock <= optimal_inventory (all equal to 0 or to each other
\* only when safety_stock is 0); Recommended_Order_Quantity is the rounded
\* max(0, optimal_inventory - current_stock): 0 for EXCESS, and for the
\* other statuses positive exactly when optimal_inventory exceeds
\* current_stock by more than half a unit.
C29_OrderRounded ==
    ReportedRow
        => /\ StatusByThresholds
           /\ BelowHalfSafety => BelowSafety
           /\ BelowSafety => BelowOptimal
           /\ ReportSafety.num * ReportOptimal.den <= ReportOptimal.num * ReportSafety.den
           /\ outcome.value.Recommended_Order_Quantity >= 0
           /\ outcome.value.Stock_Status = "EXCESS"
                => outcome.value.Recommended_Order_Quantity = 0
           /\ outcome.value.Stock_Status # "EXCESS"
                => (outcome.value.Recommended_Order_Quantity > 0 <=> GapAboveHalf)

\* a component just below its optimal inventory: not EXCESS, order of 0
C29_Witness ==
    /\ ReportedRow
    /\ outcome.value.Stock_Status = "ADEQUATE"
    /\ outcome.value.Recommended_Order_Quantity = 0
    /\ ReportSafety.num > 0

====
